---- MODULE Spec2Model ----
(***************************************************************************)
(* Model of data/users/externalldap.py: the LDAP-backed federated user     *)
(* adapter (LDAPConnection, LDAPUsers).  Strings are sequences of          *)
(* one-character strings, so that escaping, wrapping and prefix tests are  *)
(* computed character by character as the code computes them.  The         *)
(* directory server is the environment: every round trip (bind, search,    *)
(* result) is answered nondeterministically.                               *)
(***************************************************************************)
EXTENDS Integers, Sequences, FiniteSets, TLC

(***************************************************************************)
(* Bounds of the model.                                                    *)
(***************************************************************************)
\* largest number of page requests one candidate base path may see
MaxPages == 2

(***************************************************************************)
(* Python values.                                                          *)
(***************************************************************************)
\* None, where a string is expected: a sequence that is no string of characters
None == <<"None">>
\* no error message (err_msg is None)
NoErr == "None"
\* truthiness of a str-or-None value
Truthy(s) == s # None /\ s # <<>>

StartsWith(s, p) == Len(s) >= Len(p) /\ SubSeq(s, 1, Len(p)) = p
EndsWith(s, p) == Len(s) >= Len(p) /\ SubSeq(s, Len(s) - Len(p) + 1, Len(s)) = p

(***************************************************************************)
(* The endpoint configuration (LDAPUsers.__init__).                        *)
(***************************************************************************)
uid_attr == <<"u", "i", "d">>
email_attr == <<"m", "a", "i", "l">>
memberof_attr == <<"m", "e", "m", "b", "e", "r", "O", "f">>
base_dn == <<"d", "c", "=", "x">>
admin_dn == <<"c", "n", "=", "a", "d", "m">>
admin_passwd == <<"s", "e", "c">>
federated_service == "ldap"

\* self._user_dns: the primary user RDN, then the secondary ones, each under base_dn
user_dns == << <<"o", "u", "=", "a", ",">> \o base_dn, <<"o", "u", "=", "b", ",">> \o base_dn >>

UserFilters == {None, <<"o", "=", "p">>}
SuperuserFilters == {None, <<"(", "r", "=", "s", ")">>}
GlobalReadonlyFilters == {None, <<"(", "r", "=", "g", ")">>}
RestrictedFilters == {None, <<"(", "r", "=", "r", ")">>}

\* the endpoints checked: no operation reads more than one role filter, so the
\* three are configured together or not at all
Configs ==
    { c \in [ ldap_user_filter : UserFilters,
              ldap_superuser_filter : SuperuserFilters,
              ldap_global_readonly_superuser_filter : GlobalReadonlyFilters,
              ldap_restricted_user_filter : RestrictedFilters,
              requires_email : BOOLEAN,
              force_no_pagination : BOOLEAN ] :
        /\ (c.ldap_superuser_filter = None) = (c.ldap_restricted_user_filter = None)
        /\ (c.ldap_superuser_filter = None) = (c.ldap_global_readonly_superuser_filter = None) }

(***************************************************************************)
(* Filter Composer.                                                        *)
(***************************************************************************)
\* ldap.filter.escape_filter_chars, escape_mode 0
EscapeChar(c) ==
    CASE c = "\\" -> <<"\\", "5", "c">>
      [] c = "*" -> <<"\\", "2", "a">>
      [] c = "(" -> <<"\\", "2", "8">>
      [] c = ")" -> <<"\\", "2", "9">>
      [] OTHER -> <<c>>

RECURSIVE escape_filter_chars(_)
escape_filter_chars(s) ==
    IF s = <<>> THEN <<>> ELSE EscapeChar(Head(s)) \o escape_filter_chars(Tail(s))

Paren(s) ==
    IF ~StartsWith(s, <<"(">>) \/ ~EndsWith(s, <<")">>)
    THEN <<"(">> \o s \o <<")">>
    ELSE s

_add_filter(query, user_filter) == <<"(", "&">> \o Paren(query) \o Paren(user_filter) \o <<")">>

_add_user_filter(c, query) ==
    IF ~Truthy(c.ldap_user_filter) THEN query ELSE _add_filter(query, c.ldap_user_filter)

\* "(|({0}={2}{3})({1}={2}{3}))" with the escaped term and the suffix
IdentityQuery(term, suffix) ==
    <<"(", "|", "(">> \o uid_attr \o <<"=">> \o escape_filter_chars(term) \o suffix
        \o <<")", "(">> \o email_attr \o <<"=">> \o escape_filter_chars(term) \o suffix
        \o <<")", ")">>

\* the role flags of a lookup: at most one is set by the callers
NoFlags == [su |-> FALSE, ru |-> FALSE, gro |-> FALSE]
SuFlags == [su |-> TRUE, ru |-> FALSE, gro |-> FALSE]
RuFlags == [su |-> FALSE, ru |-> TRUE, gro |-> FALSE]
GroFlags == [su |-> FALSE, ru |-> FALSE, gro |-> TRUE]

\* a faulty variant: the role flags are ignored
UserQueryNoRole(c, term, suffix, fl) ==
    [q |-> _add_user_filter(c, IdentityQuery(term, suffix)), ok |-> TRUE, err |-> NoErr]

\* the filter of the primary search of _ldap_user_search_with_rdn, or the
\* error it returns before searching when the role filter is not configured
UserQuery(c, term, suffix, fl) ==
    LET q == _add_user_filter(c, IdentityQuery(term, suffix)) IN
    IF fl.ru
    THEN IF ~Truthy(c.ldap_restricted_user_filter)
         THEN [q |-> <<>>, ok |-> FALSE, err |-> "Username not found"]
         ELSE [q |-> _add_filter(q, c.ldap_restricted_user_filter), ok |-> TRUE, err |-> NoErr]
    ELSE IF fl.su
    THEN IF ~Truthy(c.ldap_superuser_filter)
         THEN [q |-> <<>>, ok |-> FALSE, err |-> "Superuser username not found"]
         ELSE [q |-> _add_filter(q, c.ldap_superuser_filter), ok |-> TRUE, err |-> NoErr]
    ELSE IF fl.gro
    THEN IF ~Truthy(c.ldap_global_readonly_superuser_filter)
         THEN [q |-> <<>>, ok |-> FALSE, err |-> "Global readonly superuser username not found"]
         ELSE [q |-> _add_filter(q, c.ldap_global_readonly_superuser_filter), ok |-> TRUE,
               err |-> NoErr]
    ELSE [q |-> q, ok |-> TRUE, err |-> NoErr]

\* a faulty variant: the superuser filter is layered onto the referral search too
ReferralSubqueryWithRole(c, term) ==
    LET q == _add_user_filter(c, <<"(">> \o uid_attr \o <<"=">> \o term \o <<")">>) IN
    IF Truthy(c.ldap_superuser_filter) THEN _add_filter(q, c.ldap_superuser_filter) ELSE q

\* the filter of the base-scope search that follows a referral
ReferralSubquery(c, term) ==
    _add_user_filter(c, <<"(">> \o uid_attr \o <<"=">> \o term \o <<")">>)

\* filter_format("(%s=%s,%s)", (memberof_attr, group_dn, self._base_dn)), then the user filter
GroupFilter(c, group_dn) ==
    _add_user_filter(c,
        <<"(">> \o escape_filter_chars(memberof_attr) \o <<"=">> \o escape_filter_chars(group_dn)
            \o <<",">> \o escape_filter_chars(base_dn) \o <<")">>)

\* a faulty variant: a role filter that is not configured is left out silently
ExistsFilterNoCheck(c, filter_superusers, filter_restricted_users) ==
    [q |-> _add_user_filter(c, <<"(", "o", "b", "j", "e", "c", "t", "C", "l", "a", "s", "s",
                                 "=", "*", ")">>), ok |-> TRUE, err |-> NoErr]

\* the filter of one search of at_least_one_user_exists, or its filter-not-set error
ExistsFilter(c, filter_superusers, filter_restricted_users) ==
    LET q == _add_user_filter(c, <<"(", "o", "b", "j", "e", "c", "t", "C", "l", "a", "s", "s",
                                   "=", "*", ")">>) IN
    IF filter_restricted_users
    THEN IF Truthy(c.ldap_restricted_user_filter)
         THEN [q |-> _add_filter(q, c.ldap_restricted_user_filter), ok |-> TRUE, err |-> NoErr]
         ELSE [q |-> <<>>, ok |-> FALSE, err |-> "Superuser filter not set"]
    ELSE IF filter_superusers
    THEN IF Truthy(c.ldap_superuser_filter)
         THEN [q |-> _add_filter(q, c.ldap_superuser_filter), ok |-> TRUE, err |-> NoErr]
         ELSE [q |-> <<>>, ok |-> FALSE, err |-> "Restricted user filter not set"]
    ELSE [q |-> q, ok |-> TRUE, err |-> NoErr]

(***************************************************************************)
(* Referral payloads and their parsing.                                    *)
(***************************************************************************)
ReferralHeader == <<"R", "e", "f", "e", "r", "r", "a", "l", ":", "\n">>
ReferralScheme == <<"l", "d", "a", "p", ":", "/", "/", "/">>

\* args[0] of a REFERRAL exception: hasinfo is whether the dict has an "info" value
NoInfo == [hasinfo |-> FALSE, info |-> <<>>]
Info(s) == [hasinfo |-> TRUE, info |-> s]
ReferralPayloads ==
    { NoInfo,
      Info(<<>>),
      Info(<<"X", ":", "\n">> \o ReferralScheme \o <<"c", "n", "=", "r">>),
      Info(ReferralHeader \o <<"h", "t", "t", "p", ":", "/", "/", "c", "n", "=", "r">>),
      Info(ReferralHeader \o ReferralScheme),
      Info(ReferralHeader \o ReferralScheme \o <<"c", "n", "=", "r">>) }

\* a faulty variant: the scheme of the referral target is not checked
ReferralDnAnyScheme(p) ==
    IF ~p.hasinfo \/ p.info = <<>> THEN None
    ELSE IF ~StartsWith(p.info, ReferralHeader) THEN None
    ELSE SubSeq(p.info, Len(ReferralHeader) + 1, Len(p.info))

\* the referral DN, or None
_get_ldap_referral_dn(p) ==
    IF ~p.hasinfo \/ p.info = <<>> THEN None
    ELSE IF ~StartsWith(p.info, ReferralHeader) THEN None
    ELSE LET referral_uri == SubSeq(p.info, Len(ReferralHeader) + 1, Len(p.info)) IN
         IF ~StartsWith(referral_uri, ReferralScheme) THEN None
         ELSE SubSeq(referral_uri, Len(ReferralScheme) + 1, Len(referral_uri))

(***************************************************************************)
(* Search results and the Identity Resolver.                               *)
(***************************************************************************)
\* an attribute value as the server sends it: bytes, decodable as UTF-8 or not
Val(b, utf8) == [b |-> b, utf8 |-> utf8]
\* a search result (dn, attrs); dn <<>> is a result without DN, an absent attribute
\* has no values, and ref marks a referral-shaped result (its second element a list)
Entry(dn, uid, mail) == [dn |-> dn, uid |-> uid, mail |-> mail, ref |-> FALSE]
EA == Entry(<<"c", "n", "=", "a">>, <<Val(<<"a", "l">>, TRUE)>>, <<Val(<<"a", "@", "x">>, TRUE)>>)
EB == Entry(<<"c", "n", "=", "b">>, <<Val(<<"a", "l">>, FALSE)>>, <<>>)
EN == Entry(<<>>, <<Val(<<"n", "o">>, TRUE)>>, <<Val(<<"n", "@", "x">>, TRUE)>>)
EU == Entry(<<"c", "n", "=", "u">>, <<>>, <<Val(<<"u", "@", "x">>, TRUE)>>)
EC == Entry(<<"c", "n", "=", "c">>, <<Val(<<"c">>, TRUE)>>, <<>>)
ER == [dn |-> <<>>, uid |-> <<>>, mail |-> <<>>, ref |-> TRUE]

\* what a user search may answer
SearchResults == { <<>>, <<EN>>, <<EA>>, <<EB, EA>>, <<EC, EB>>, <<EN, EB>>, <<EU, EB, EA>> }

\* bytes.decode("utf-8"), falling back to the raw value
Decode(v) == [s |-> v.b, bytes |-> ~v.utf8]
NoneStr == [s |-> None, bytes |-> FALSE]

UserInformation(username, email, id) == [username |-> username, email |-> email, id |-> id]

\* a faulty variant: a missing mandatory email gives a record without email
BuildWithoutEmailCheck(c, response) ==
    IF response.uid = <<>>
    THEN [err |-> "Missing uid field \"uid\" in user record", val |-> <<>>]
    ELSE LET username == Decode(response.uid[1])
             email == IF response.mail = <<>> THEN NoneStr ELSE Decode(response.mail[1])
         IN  [err |-> NoErr, val |-> <<UserInformation(username, email, username)>>]

\* (UserInformation | None, error): val is <<>> for None
_build_user_information(c, response) ==
    IF response.uid = <<>>
    THEN [err |-> "Missing uid field \"uid\" in user record", val |-> <<>>]
    ELSE IF c.requires_email /\ response.mail = <<>>
    THEN [err |-> "Missing mail field \"mail\" in user record", val |-> <<>>]
    ELSE LET username == Decode(response.uid[1])
             email == IF response.mail = <<>> THEN NoneStr ELSE Decode(response.mail[1])
         IN  [err |-> NoErr, val |-> <<UserInformation(username, email, username)>>]

Min(a, b) == IF a < b THEN a ELSE b
\* util.itertoolrecipes.take
take(n, s) == SubSeq(s, 1, Min(n, Len(s)))

\* a faulty variant: results without DN are kept
AnyEntry(e) == TRUE
HasDn(e) == e.dn # <<>>
HasMail(e) == e.mail # <<>>

\* the tail of _ldap_user_search: p is pairs (<<>> for None, else <<list>>), e is err_msg
UserSearchResult(p, e, limit) ==
    IF e # NoErr THEN [ok |-> FALSE, err |-> e, res |-> <<>>]
    ELSE [ok |-> TRUE, err |-> NoErr, res |-> SelectSeq(take(limit, p[1]), HasDn)]

\* a faulty variant: the first entry is taken whatever its attributes
SingleUserFirst(sr) ==
    IF sr.err # NoErr THEN [err |-> sr.err, found |-> <<>>]
    ELSE IF Len(sr.res) < 1 THEN [err |-> "Invalid username or password.", found |-> <<>>]
    ELSE [err |-> NoErr, found |-> <<sr.res[1]>>]

\* _ldap_single_user_search after its search: found is <<>> for None
SingleUser(sr) ==
    IF sr.err # NoErr THEN [err |-> sr.err, found |-> <<>>]
    ELSE IF Len(sr.res) < 1 THEN [err |-> "Invalid username or password.", found |-> <<>>]
    ELSE IF Len(sr.res) = 1 THEN [err |-> NoErr, found |-> <<sr.res[1]>>]
    ELSE LET with_mail == SelectSeq(sr.res, HasMail) IN
         [err |-> NoErr, found |-> <<IF with_mail # <<>> THEN with_mail[1] ELSE sr.res[1]>>]

RECURSIVE QueryResults(_, _)
\* the loop of query_users: the records that resolve, in order
QueryResults(c, results) ==
    IF results = <<>> THEN <<>>
    ELSE LET b == _build_user_information(c, Head(results)) IN
         (IF b.err # NoErr THEN <<>> ELSE b.val) \o QueryResults(c, Tail(results))

(***************************************************************************)
(* Service/bot identifiers (data.model.user.lookup_robot).                 *)
(***************************************************************************)
Robots == { <<"a", "+", "b">> }
IsRobot(term) == term \in Robots

(***************************************************************************)
(* The state.                                                              *)
(***************************************************************************)
VARIABLES
    cfg,            \* the endpoint configuration, fixed at construction
    op,             \* the public operation in progress and its arguments
    pc,             \* where the operation is: idle, a round trip, or done
    ret,            \* what the operation gave its caller: nothing yet, a value, an exception
    conns,          \* every connection handle made by ldap.initialize, in order
    log,            \* every request sent to the directory, in order, with its outcome
    idx,            \* the index of the candidate base path of the user/existence search
    err_msg,        \* err_msg of _ldap_user_search
    pairs,          \* pairs of _ldap_user_search: <<>> for None, else <<list>>
    refdn,          \* the referral DN being followed
    found,          \* found_user of verify_credentials: <<>> for None, else <<entry>>
    gst,            \* the member generator: none, created, running, suspended, done, raised
    gpc,            \* where the running generator is
    gidx,           \* the index of the candidate base path of the generator
    rdata,          \* the entries of the current batch not yet looked at
    found_results,  \* found_results of _iterate_members
    serverctrls,    \* the paging control of the last response: <<>> or <<cookie>>
    lc_cookie,      \* lc.cookie, the cookie of the request control
    npages,         \* page requests sent on the current base path
    yielded,        \* the items the generator has yielded, in order
    abandoned,      \* whether the consumer dropped the generator
    threads         \* the operations running concurrently, each with its locals

vars == <<cfg, op, pc, ret, conns, log, idx, err_msg, pairs, refdn, found, gst, gpc, gidx,
          rdata, found_results, serverctrls, lc_cookie, npages, yielded, abandoned, threads>>

searchVars == <<idx, err_msg, pairs, refdn, found>>
genVars == <<gst, gpc, gidx, rdata, found_results, serverctrls, lc_cookie, npages, yielded,
             abandoned>>

(***************************************************************************)
(* Inputs.                                                                 *)
(***************************************************************************)
DefaultLimit == 20
DefaultPageSize == 1000
Terms == { <<>>, <<"a", "+", "b">>, <<"a", "l">>, <<"*", ")">> }
Passwords == { <<>>, <<"p", "w">> }
QueryLimits == { 2, DefaultLimit }
GroupDns == { <<"c", "n", "=", "g">>, <<"g", "*">> }

Op(name, term) ==
    [ term |-> term, suffix |-> <<>>, fl |-> NoFlags, group_dn |-> None,
      limit |-> DefaultLimit, name |-> name, password |-> <<>>, fsu |-> FALSE,
      fru |-> FALSE, page_size |-> 0, disable_pagination |-> FALSE ]
NoOp == Op("none", <<>>)

Ret(v, e) == [err |-> e, val |-> v, kind |-> "ret"]
Raise(x) == [err |-> x, val |-> <<>>, kind |-> "raise"]
NoRet == [err |-> NoErr, val |-> <<>>, kind |-> "none"]

(***************************************************************************)
(* Connections and requests.                                               *)
(***************************************************************************)
\* a handle: "bound" after simple_bind_s, "unbound" after unbind_s, "leaked" when
\* simple_bind_s raised in __enter__, so that __exit__ never runs for it
Conn(who, dn, st) == [dn |-> dn, who |-> who, st |-> st]

Req(kind, base, scope, flt, pw, cookie, size, out, ref) ==
    [ ref |-> ref, kind |-> kind, base |-> base, scope |-> scope, flt |-> flt, pw |-> pw,
      cookie |-> cookie, size |-> size, out |-> out, conn |-> 0, data |-> <<>>,
      ctrls |-> <<>> ]
On(r, c) == [r EXCEPT !.conn = c]
Got(r, d) == [r EXCEPT !.data = d]
\* the paging controls a response carried
Ctl(r, ctrls) == [r EXCEPT !.ctrls = ctrls]
BindReq(dn, pw, out, ref) == Req("bind", dn, "", <<>>, pw, <<>>, 0, out, ref)

\* the directory's answers
Outcome(x, ref, data) == [ref |-> ref, x |-> x, data |-> data]
Failures == { "INVALID_CREDENTIALS", "SERVER_DOWN", "TIMEOUT", "NO_SUCH_OBJECT" }
Referrals == { Outcome("REFERRAL", p, <<>>) : p \in ReferralPayloads }
BindOutcomes ==
    { Outcome(x, NoInfo, <<>>) : x \in {"ok"} \cup (Failures \ {"NO_SUCH_OBJECT"}) } \cup Referrals
SearchOutcomes ==
    { Outcome("ok", NoInfo, d) : d \in SearchResults }
        \cup { Outcome(x, NoInfo, <<>>) : x \in Failures \ {"INVALID_CREDENTIALS"} }
        \cup Referrals

\* the connection opened last, and the unbind_s of __exit__ for it
Cur == Len(conns)
\* a faulty variant: __exit__ leaves the connection bound
StillBound(cs, i) == cs
Unbound(cs, i) == [cs EXCEPT ![i].st = "unbound"]

(***************************************************************************)
(* The start of each public operation, up to its first round trip.         *)
(***************************************************************************)
\* f"LDAP lookup for robots disabled {username_or_email}", for the robot of the model
RobotMsg == "LDAP lookup for robots disabled a+b"
AdminInvalidMsg == "LDAP Admin dn or password is invalid"
Failed(e) == [ok |-> FALSE, err |-> e, res |-> <<>>]

\* a faulty variant: the empty term is not rejected
EarlyRobotOnly(term) == IF IsRobot(term) THEN RobotMsg ELSE NoErr

\* the checks of _ldap_user_search before it opens a connection
EarlyUserSearch(term) ==
    IF ~Truthy(term) THEN "Empty username/email"
    ELSE IF IsRobot(term) THEN RobotMsg
    ELSE NoErr
\* the check of _ldap_single_user_search, then those of _ldap_user_search
EarlySingle(term) == IF IsRobot(term) THEN RobotMsg ELSE EarlyUserSearch(term)

SingleOps == { "get_user", "verify_credentials", "is_superuser",
               "is_global_readonly_superuser", "is_restricted_user" }
PredicateOps == { "is_superuser", "is_global_readonly_superuser", "is_restricted_user" }
UserSearchOps == SingleOps \cup { "query_users" }
ExistsOps == { "at_least_one_user_exists", "has_superusers", "has_restricted_users" }
GroupOps == { "iterate_group_members", "check_group_lookup_args" }

\* what the caller of _ldap_user_search does with its result sr: the public return
\* value, or, for verify_credentials with a user found, the bind as that user
AfterUserSearch(c, o, sr) ==
    LET su == SingleUser(sr) IN
    IF o.name = "query_users"
    THEN [ found |-> <<>>, pc |-> "done",
           ret |-> IF sr.err # NoErr THEN Ret(<<>>, sr.err)
                   ELSE Ret(<<QueryResults(c, take(o.limit, sr.res))>>, NoErr) ]
    ELSE IF o.name = "get_user"
    THEN [ found |-> <<>>, pc |-> "done",
           ret |-> IF su.err # NoErr THEN Ret(<<>>, su.err)
                   ELSE LET b == _build_user_information(c, su.found[1]) IN Ret(b.val, b.err) ]
    ELSE IF o.name = "verify_credentials"
    THEN IF su.found = <<>>
         THEN [found |-> <<>>, pc |-> "done", ret |-> Ret(<<>>, su.err)]
         ELSE [found |-> su.found, pc |-> "ubind", ret |-> NoRet]
    ELSE [found |-> <<>>, pc |-> "done", ret |-> Ret(<<su.found # <<>>>>, NoErr)]

\* the return value of a call that ends before any connection is opened
Early(r) == [ret |-> r, stop |-> TRUE]
Go == [ret |-> NoRet, stop |-> FALSE]

StartCall(o, early) ==
    /\ pc = "idle"
    /\ op' = o
    /\ pc' = IF early.stop THEN "done" ELSE "probe"
    /\ ret' = early.ret
    /\ UNCHANGED <<cfg, threads, conns, log, searchVars, genVars>>

EarlyOf(c, o, e) == IF e # NoErr THEN Early(AfterUserSearch(c, o, Failed(e)).ret) ELSE Go

ping == StartCall(Op("ping", <<>>), Go)

\* what each operation does before it opens a connection
GetUserEarly(c, o) == EarlyOf(c, o, EarlySingle(o.term))

QueryUsersEarly(c, o) ==
    IF ~Truthy(o.term) THEN Early(Ret(<<>>, "Empty query"))
    ELSE EarlyOf(c, o, EarlyUserSearch(o.term))

\* a faulty variant: the empty secret is not rejected
VerifyEarlyNoSecretCheck(c, o) == EarlyOf(c, o, EarlySingle(o.term))

VerifyEarly(c, o) ==
    IF ~Truthy(o.password) THEN Early(Ret(<<>>, "Anonymous binding not allowed."))
    ELSE EarlyOf(c, o, EarlySingle(o.term))

\* is_superuser and is_global_readonly_superuser
SuperuserEarly(c, o) ==
    IF ~Truthy(o.term) THEN Early(Ret(<<FALSE>>, NoErr))
    ELSE IF IsRobot(o.term) THEN Early(Ret(<<FALSE>>, NoErr))
    ELSE EarlyOf(c, o, EarlySingle(o.term))

RestrictedEarly(c, o) ==
    IF ~Truthy(o.term) THEN Early(Ret(<<FALSE>>, NoErr))
    ELSE IF c.ldap_restricted_user_filter = None THEN Early(Ret(<<TRUE>>, NoErr))
    ELSE IF IsRobot(o.term) THEN Early(Ret(<<FALSE>>, NoErr))
    ELSE EarlyOf(c, o, EarlySingle(o.term))

get_user ==
    \E t \in Terms :
        LET o == Op("get_user", t) IN StartCall(o, GetUserEarly(cfg, o))

query_users ==
    \E t \in Terms, l \in QueryLimits :
        LET o == [Op("query_users", t) EXCEPT !.limit = l, !.suffix = <<"*">>] IN
        StartCall(o, QueryUsersEarly(cfg, o))

verify_credentials ==
    \E t \in Terms, pw \in Passwords :
        LET o == [Op("verify_credentials", t) EXCEPT !.password = pw] IN
        StartCall(o, VerifyEarly(cfg, o))

is_superuser ==
    \E t \in Terms :
        LET o == [Op("is_superuser", t) EXCEPT !.fl = SuFlags] IN
        StartCall(o, SuperuserEarly(cfg, o))

is_global_readonly_superuser ==
    \E t \in Terms :
        LET o == [Op("is_global_readonly_superuser", t) EXCEPT !.fl = GroFlags] IN
        StartCall(o, SuperuserEarly(cfg, o))

is_restricted_user ==
    \E t \in Terms :
        LET o == [Op("is_restricted_user", t) EXCEPT !.fl = RuFlags] IN
        StartCall(o, RestrictedEarly(cfg, o))

at_least_one_user_exists ==
    \E fsu \in BOOLEAN, fru \in BOOLEAN :
        StartCall([Op("at_least_one_user_exists", <<>>) EXCEPT !.fsu = fsu, !.fru = fru], Go)

has_superusers == StartCall([Op("has_superusers", <<>>) EXCEPT !.fsu = TRUE], Go)

\* with no restricted-user filter the first call, at_least_one_user_exists(), is the
\* one made; otherwise the call with filter_restricted_users=True
has_restricted_users ==
    StartCall([Op("has_restricted_users", <<>>)
                  EXCEPT !.fru = (cfg.ldap_restricted_user_filter # None)], Go)

\* what the caller of at_least_one_user_exists does with its result r = [val, err]
AfterExists(c, o, r) ==
    IF o.name = "at_least_one_user_exists" THEN Ret(r.val, r.err)
    ELSE IF o.name = "has_superusers" THEN Ret(r.val, NoErr)
    ELSE IF c.ldap_restricted_user_filter = None
    THEN Ret(<<TRUE>>, NoErr)      \* the tuple returned is truthy whatever it holds
    ELSE Ret(r.val, NoErr)

(***************************************************************************)
(* The administrative probe bind: "with self._ldap.get_connection(): pass". *)
(***************************************************************************)
\* a faulty variant: a rejected probe is reported as a lookup miss
AdminInvalidAsNotFound(c, o) == Ret(<<>>, "Username not found")

\* the return value when the probe is rejected with INVALID_CREDENTIALS
AdminInvalid(c, o) ==
    IF o.name \in UserSearchOps THEN AfterUserSearch(c, o, Failed(AdminInvalidMsg)).ret
    ELSE IF o.name = "ping" THEN Ret(<<FALSE>>, AdminInvalidMsg)
    ELSE IF o.name \in ExistsOps THEN AfterExists(c, o, [err |-> AdminInvalidMsg, val |-> <<>>])
    ELSE IF o.name = "iterate_group_members" THEN Ret(<<>>, AdminInvalidMsg)
    ELSE Ret(<<FALSE>>, AdminInvalidMsg)

\* what a failed probe bind gives the caller: only ping catches every LDAPError
ProbeFailure(c, o, x) ==
    IF x = "INVALID_CREDENTIALS" THEN AdminInvalid(c, o)
    ELSE IF o.name = "ping" THEN Ret(<<FALSE>>, x)
    ELSE Raise(x)

ProbeBind ==
    /\ pc = "probe"
    /\ \E o \in BindOutcomes :
        /\ log' = Append(log, On(BindReq(admin_dn, admin_passwd, o.x, NoInfo), Cur + 1))
        /\ IF o.x = "ok"
           THEN /\ conns' = Append(conns, Conn("probe", admin_dn, "unbound"))
                /\ IF op.name = "ping"
                   THEN pc' = "done" /\ ret' = Ret(<<TRUE>>, NoErr) /\ gst' = gst
                   ELSE IF op.name = "iterate_group_members"
                   THEN pc' = "done" /\ ret' = Ret(<<"iterator">>, NoErr) /\ gst' = "created"
                   ELSE IF op.name = "check_group_lookup_args"
                   THEN pc' = "cgnext" /\ ret' = ret /\ gst' = "created"
                   ELSE pc' = "sbind" /\ ret' = ret /\ gst' = gst
           ELSE /\ conns' = Append(conns, Conn("probe", admin_dn, "leaked"))
                /\ pc' = "done"
                /\ ret' = ProbeFailure(cfg, op, o.x)
                /\ gst' = gst
    /\ UNCHANGED <<cfg, threads, op, searchVars, gpc, gidx, rdata, found_results, serverctrls,
                   lc_cookie, npages, yielded, abandoned>>

(***************************************************************************)
(* _ldap_user_search: "with self._ldap.get_connection() as conn".          *)
(***************************************************************************)
SearchBind ==
    /\ pc = "sbind"
    /\ \E o \in BindOutcomes :
        /\ log' = Append(log, On(BindReq(admin_dn, admin_passwd, o.x, NoInfo), Cur + 1))
        /\ IF o.x = "ok"
           THEN /\ conns' = Append(conns, Conn("search", admin_dn, "bound"))
                /\ pc' = IF op.name \in UserSearchOps THEN "search" ELSE "esearch"
                /\ idx' = 1
                /\ ret' = ret
           ELSE /\ conns' = Append(conns, Conn("search", admin_dn, "leaked"))
                /\ pc' = "done"
                /\ idx' = idx
                /\ ret' = Raise(o.x)
    /\ UNCHANGED <<cfg, threads, op, err_msg, pairs, refdn, found, genVars>>

\* a faulty variant: the loop has no break
LoopEndsAtLastPath(p, e, i) == i = Len(user_dns)

\* whether the loop over self._user_dns ends after a path that gave (p, e)
LoopEnds(p, e, i) == (p # <<>> /\ Len(p[1]) > 0) \/ i = Len(user_dns)

\* the rest of _ldap_user_search once _ldap_user_search_with_rdn returned (p, e) for
\* the path idx: the next path, or the end of the loop, __exit__ and the caller
LoopNext(p, e) ==
    /\ pairs' = p
    /\ err_msg' = e
    /\ IF LoopEnds(p, e, idx)
       THEN LET n == AfterUserSearch(cfg, op, UserSearchResult(p, e, op.limit)) IN
            /\ pc' = n.pc
            /\ ret' = n.ret
            /\ found' = n.found
            /\ idx' = idx
            /\ conns' = Unbound(conns, Cur)
       ELSE /\ pc' = "search"
            /\ idx' = idx + 1
            /\ UNCHANGED <<ret, found, conns>>

SearchOut(o) == IF o.x = "ok" THEN (IF o.data # <<>> THEN "hit" ELSE "empty") ELSE o.x

\* one call of _ldap_user_search_with_rdn, up to its return or to the referral search
Search ==
    /\ pc = "search"
    /\ LET q == UserQuery(cfg, op.term, op.suffix, op.fl) IN
       IF ~q.ok
       THEN /\ LoopNext(<<>>, q.err)
            /\ UNCHANGED <<log, refdn>>
       ELSE \E o \in SearchOutcomes :
            /\ log' = Append(log, Got(On(Req("search_s", user_dns[idx], "SUBTREE", q.q, <<>>,
                                             <<>>, 0, SearchOut(o), o.ref), Cur), o.data))
            /\ IF o.x = "ok"
               THEN LoopNext(<<o.data>>, NoErr) /\ refdn' = refdn
               ELSE IF o.x = "REFERRAL"
               THEN LET referral_dn == _get_ldap_referral_dn(o.ref) IN
                    IF ~Truthy(referral_dn)
                    THEN /\ LoopNext(<<>>, "Failed to follow referral when looking up username")
                         /\ refdn' = refdn
                    ELSE /\ pc' = "refsearch"
                         /\ refdn' = referral_dn
                         /\ UNCHANGED <<ret, found, conns, idx, pairs, err_msg>>
               ELSE LoopNext(<<>>, "Username not found") /\ refdn' = refdn
    /\ UNCHANGED <<cfg, threads, op, genVars>>

\* the base-scope search on the referral DN
ReferralSearch ==
    /\ pc = "refsearch"
    /\ \E o \in SearchOutcomes :
        /\ log' = Append(log, Got(On(Req("search_s", refdn, "BASE",
                                         ReferralSubquery(cfg, op.term), <<>>, <<>>, 0,
                                         SearchOut(o), o.ref), Cur), o.data))
        /\ IF o.x = "ok"
           THEN LoopNext(<<o.data>>, NoErr)
           ELSE LoopNext(<<>>, "Username not found")
    /\ UNCHANGED <<cfg, threads, op, refdn, genVars>>

(***************************************************************************)
(* verify_credentials: the bind as the user found, and after a referral.   *)
(***************************************************************************)
InvalidLogin == Ret(<<>>, "Invalid username or password.")
Built(c, e) == LET b == _build_user_information(c, e) IN Ret(b.val, b.err)

\* a faulty variant: INVALID_CREDENTIALS is not caught as a failed login
BindResultIgnoresRejection(c, e, x) ==
    IF x \in {"ok", "INVALID_CREDENTIALS"} THEN Built(c, e) ELSE Raise(x)

\* what verify_credentials returns after a bind as the user e that answered x and
\* is not followed further
BindResult(c, e, x) ==
    IF x = "ok" THEN Built(c, e)
    ELSE IF x = "INVALID_CREDENTIALS" THEN InvalidLogin
    ELSE Raise(x)

UserBind ==
    /\ pc = "ubind"
    /\ \E o \in BindOutcomes :
        LET found_dn == found[1].dn IN
        /\ log' = Append(log, On(BindReq(found_dn, op.password, o.x, o.ref), Cur + 1))
        /\ conns' = Append(conns, Conn("user", found_dn,
                                       IF o.x = "ok" THEN "unbound" ELSE "leaked"))
        /\ IF o.x = "REFERRAL"
           THEN LET referral_dn == _get_ldap_referral_dn(o.ref) IN
                IF ~Truthy(referral_dn)
                THEN pc' = "done" /\ ret' = InvalidLogin /\ refdn' = refdn
                ELSE pc' = "rbind" /\ ret' = ret /\ refdn' = referral_dn
           ELSE pc' = "done" /\ ret' = BindResult(cfg, found[1], o.x) /\ refdn' = refdn
    /\ UNCHANGED <<cfg, threads, op, idx, err_msg, pairs, found, genVars>>

ReferralBind ==
    /\ pc = "rbind"
    /\ \E o \in BindOutcomes :
        /\ log' = Append(log, On(BindReq(refdn, op.password, o.x, NoInfo), Cur + 1))
        /\ conns' = Append(conns, Conn("referral", refdn,
                                       IF o.x = "ok" THEN "unbound" ELSE "leaked"))
        /\ pc' = "done"
        /\ ret' = BindResult(cfg, found[1], o.x)
    /\ UNCHANGED <<cfg, threads, op, searchVars, genVars>>

(***************************************************************************)
(* at_least_one_user_exists: one paged search of size 1 per base path.     *)
(***************************************************************************)
\* what sending a search request may answer, and what reading a result may answer
IssueOutcomes == { "ok", "SERVER_DOWN", "TIMEOUT" }
ResultFailures == { "NO_SUCH_OBJECT", "SERVER_DOWN", "TIMEOUT" }
\* what a read may return: nothing, a referral-shaped entry alone, a member without
\* uid alone, and three entries with a referral-shaped one among them
GroupBatches == { <<>>, <<ER>>, <<EU>>, <<EA, ER, EU>> }
\* the cookie the server hands out with its n-th page
Cookie(n) == <<"k", ToString(n)>>

ExistsDone(r) ==
    /\ pc' = "done"
    /\ ret' = AfterExists(cfg, op, r)
    /\ conns' = Unbound(conns, Cur)
    /\ idx' = idx

ExistsSearch ==
    /\ pc = "esearch"
    /\ LET f == ExistsFilter(cfg, op.fsu, op.fru)
           has_pagination == ~cfg.force_no_pagination
       IN
       IF ~f.ok
       THEN ExistsDone([err |-> f.err, val |-> <<FALSE>>]) /\ log' = log
       ELSE \E x \in IssueOutcomes :
            /\ log' = Append(log, On(Req(IF has_pagination THEN "search_ext" ELSE "search",
                                         user_dns[idx], "SUBTREE", f.q, <<>>, <<>>,
                                         IF has_pagination THEN 1 ELSE 0, x, NoInfo), Cur))
            /\ IF x = "ok"
               THEN pc' = "eresult" /\ UNCHANGED <<ret, conns, idx>>
               ELSE ExistsDone([err |-> x, val |-> <<FALSE>>])
    /\ UNCHANGED <<cfg, threads, op, err_msg, pairs, refdn, found, genVars>>

ExistsResult ==
    /\ pc = "eresult"
    /\ \E o \in { Outcome("ok", NoInfo, d) : d \in GroupBatches }
                \cup { Outcome(x, NoInfo, <<>>) : x \in ResultFailures } :
        /\ log' = Append(log, Got(On(Req(IF cfg.force_no_pagination THEN "result" ELSE "result3",
                                         user_dns[idx], "", <<>>, <<>>, <<>>, 0, SearchOut(o),
                                         NoInfo), Cur), o.data))
        /\ IF o.x # "ok" THEN ExistsDone([err |-> o.x, val |-> <<FALSE>>])
           ELSE IF o.data # <<>> THEN ExistsDone([err |-> NoErr, val |-> <<TRUE>>])
           ELSE IF idx = Len(user_dns) THEN ExistsDone([err |-> NoErr, val |-> <<FALSE>>])
           ELSE pc' = "esearch" /\ idx' = idx + 1 /\ UNCHANGED <<ret, conns>>
    /\ UNCHANGED <<cfg, threads, op, err_msg, pairs, refdn, found, genVars>>

(***************************************************************************)
(* iterate_group_members, check_group_lookup_args and the member generator. *)
(***************************************************************************)
PageSizes == { 0, 2 }               \* 0 is page_size=None

iterate_group_members ==
    \E g \in GroupDns, ps \in PageSizes, dp \in BOOLEAN :
        StartCall([Op("iterate_group_members", <<>>)
                      EXCEPT !.group_dn = g,
                             !.page_size = IF ps = 0 THEN DefaultPageSize ELSE ps,
                             !.disable_pagination = dp], Go)

check_group_lookup_args ==
    \E g \in GroupDns \cup {None, <<>>}, dp \in BOOLEAN :
        StartCall([Op("check_group_lookup_args", <<>>)
                      EXCEPT !.group_dn = g, !.page_size = 1, !.disable_pagination = dp],
                  IF ~Truthy(g) THEN Early(Ret(<<FALSE>>, "Missing group_dn")) ELSE Go)

\* a faulty variant: the two pagination switches are ignored
AlwaysPaged == TRUE

HasPagination == ~(cfg.force_no_pagination \/ op.disable_pagination)

\* the consumer inside check_group_lookup_args: "if not next(it, False)" and the
\* return that drops the generator
InCheck == op.name = "check_group_lookup_args" /\ pc = "cgnext"

\* the generator yields item and suspends
Yield(item, rest, fr) ==
    /\ gst' = "suspended"
    /\ yielded' = Append(yielded, item)
    /\ rdata' = rest
    /\ found_results' = fr
    /\ IF InCheck
       THEN pc' = "done" /\ ret' = Ret(<<TRUE>>, NoErr) /\ abandoned' = TRUE
       ELSE UNCHANGED <<pc, ret, abandoned>>
    /\ UNCHANGED <<conns, gpc, gidx, lc_cookie, npages>>

\* the generator leaves the with block normally and ends
GenEnd ==
    /\ gst' = "done"
    /\ conns' = Unbound(conns, Cur)
    /\ IF InCheck
       THEN pc' = "done" /\ ret' = Ret(<<FALSE>>, "Group does not exist or is empty")
       ELSE UNCHANGED <<pc, ret>>
    /\ UNCHANGED <<gpc, gidx, rdata, found_results, lc_cookie, npages, yielded, abandoned>>

\* an exception x leaves the generator; cs are the connections after it
GenRaise(x, cs) ==
    /\ gst' = "raised"
    /\ gpc' = x
    /\ conns' = cs
    /\ IF InCheck THEN pc' = "done" /\ ret' = Raise(x) ELSE UNCHANGED <<pc, ret>>
    /\ UNCHANGED <<gidx, rdata, found_results, lc_cookie, npages, yielded, abandoned>>

\* the next candidate base path, or the end of the loop over self._user_dns
NextPath ==
    IF gidx < Len(user_dns)
    THEN /\ gidx' = gidx + 1
         /\ gpc' = "gissue"
         /\ gst' = "running"
         /\ UNCHANGED <<pc, ret, conns, rdata, found_results, lc_cookie, npages, yielded,
                        abandoned>>
    ELSE GenEnd

\* a faulty variant: a paging control with an empty cookie does not end the base
\* path, the search is sent again
BatchEndNoLastPage(fr, ctrls) ==
    IF fr = 0 \/ ~HasPagination \/ ctrls = <<>> THEN NextPath /\ serverctrls' = ctrls
    ELSE /\ lc_cookie' = ctrls[1]
         /\ gpc' = "gcont"
         /\ gst' = "running"
         /\ found_results' = fr
         /\ rdata' = <<>>
         /\ serverctrls' = ctrls
         /\ UNCHANGED <<pc, ret, conns, gidx, npages, yielded, abandoned>>

\* after the batch: stop this base path, or ask for the next page
BatchEnd(fr, ctrls) ==
    IF fr = 0 THEN NextPath /\ serverctrls' = ctrls
    ELSE IF ~HasPagination THEN NextPath /\ serverctrls' = ctrls
    ELSE IF ctrls # <<>>
    THEN IF ctrls[1] # <<>>
         THEN /\ lc_cookie' = ctrls[1]
              /\ gpc' = "gcont"
              /\ gst' = "running"
              /\ found_results' = fr
              /\ rdata' = <<>>
              /\ serverctrls' = ctrls
              /\ UNCHANGED <<pc, ret, conns, gidx, npages, yielded, abandoned>>
         ELSE /\ serverctrls' = ctrls
              /\ IF gidx < Len(user_dns)
                 THEN /\ gidx' = gidx + 1
                      /\ gpc' = "gissue"
                      /\ gst' = "running"
                      /\ lc_cookie' = ctrls[1]
                      /\ UNCHANGED <<pc, ret, conns, rdata, found_results, npages, yielded,
                                     abandoned>>
                 ELSE GenEnd
    ELSE NextPath /\ serverctrls' = ctrls

\* a faulty variant: referral-shaped entries are not skipped
SkipNothing(rd) == rd

RECURSIVE SkipReferrals(_)
\* the entries of the batch from the first one that is not referral-shaped
SkipReferrals(rd) ==
    IF rd = <<>> THEN <<>> ELSE IF Head(rd).ref THEN SkipReferrals(Tail(rd)) ELSE rd

\* a faulty variant: found_results counts only the entries that are yielded
DrainCountsYielded(rd, fr, ctrls) ==
    LET rest == SkipReferrals(rd) IN
    IF rest = <<>>
    THEN BatchEnd(fr, ctrls)
    ELSE /\ Yield(<<_build_user_information(cfg, Head(rest))>>, Tail(rest), fr + 1)
         /\ serverctrls' = ctrls

\* the loop "for userdata in rdata" from the entries rd on, with found_results fr:
\* up to the next yield, or through the end of the batch
Drain(rd, fr, ctrls) ==
    LET rest == SkipReferrals(rd)
        skipped == Len(rd) - Len(rest)
    IN  IF rest = <<>>
        THEN BatchEnd(fr + skipped, ctrls)
        ELSE /\ Yield(<<_build_user_information(cfg, Head(rest))>>, Tail(rest), fr + skipped + 1)
             /\ serverctrls' = ctrls

\* the consumer asks for the next item
Pull ==
    /\ ~abandoned
    /\ \/ op.name = "iterate_group_members" /\ pc = "done" /\ ret.kind = "ret" /\ ret.err = NoErr
       \/ InCheck
    /\ \/ /\ gst = "created"
          /\ gst' = "running"
          /\ gpc' = "gbind"
          /\ UNCHANGED <<pc, ret, conns, gidx, rdata, found_results, serverctrls, lc_cookie,
                         npages, yielded, abandoned>>
       \/ /\ gst = "suspended"
          /\ Drain(rdata, found_results, serverctrls)
    /\ UNCHANGED <<cfg, threads, op, log, searchVars>>

\* the consumer drops the generator without exhausting it
Abandon ==
    /\ op.name = "iterate_group_members" /\ pc = "done"
    /\ gst \in {"created", "suspended"}
    /\ ~abandoned
    /\ abandoned' = TRUE
    /\ UNCHANGED <<cfg, threads, op, pc, ret, conns, log, searchVars, gst, gpc, gidx, rdata,
                   found_results, serverctrls, lc_cookie, npages, yielded>>

\* a faulty variant: closing the generator does not leave the with block
CloseKeepsConns(cs, st) == cs

\* the connections after close() on a generator in state st: GeneratorExit raised at
\* the yield leaves the with block; a generator never started has nothing to leave
CloseConns(cs, st) == IF st = "suspended" THEN Unbound(cs, Len(cs)) ELSE cs

\* the finalizer of a dropped generator
GenClose ==
    /\ abandoned
    /\ gst \in {"created", "suspended"}
    /\ gst' = "done"
    /\ conns' = CloseConns(conns, gst)
    /\ UNCHANGED <<cfg, threads, op, pc, ret, log, searchVars, gpc, gidx, rdata, found_results,
                   serverctrls, lc_cookie, npages, yielded, abandoned>>

\* "with self._ldap.get_connection() as conn" of _iterate_members
GenBind ==
    /\ gst = "running" /\ gpc = "gbind"
    /\ \E o \in BindOutcomes :
        /\ log' = Append(log, On(BindReq(admin_dn, admin_passwd, o.x, NoInfo), Cur + 1))
        /\ IF o.x = "ok"
           THEN /\ conns' = Append(conns, Conn("gen", admin_dn, "bound"))
                /\ gpc' = "gissue"
                /\ gidx' = 1
                /\ UNCHANGED <<pc, ret, gst, rdata, found_results, lc_cookie, npages, yielded,
                               abandoned>>
           ELSE GenRaise(o.x, Append(conns, Conn("gen", admin_dn, "leaked")))
    /\ UNCHANGED <<cfg, threads, op, searchVars, serverctrls>>

GroupReq(kind, cookie, x) ==
    On(Req(kind, user_dns[gidx], "SUBTREE", GroupFilter(cfg, op.group_dn), <<>>, cookie,
           IF HasPagination THEN op.page_size ELSE 0, x, NoInfo), Cur)

\* a faulty variant: the control of the previous base path is used again
ReusedPagedResultsControl(previous) == previous

\* lc = SimplePagedResultsControl(criticality=True, size=page_size, cookie=""): the
\* cookie of the control made for a base path, whatever the previous control held
SimplePagedResultsControl(previous) == <<>>

\* the first search of a base path, with a fresh paging control
GenIssue ==
    /\ gst = "running" /\ gpc = "gissue"
    /\ \E x \in IssueOutcomes :
        /\ log' = Append(log, GroupReq(IF HasPagination THEN "search_ext" ELSE "search",
                                       IF HasPagination
                                       THEN SimplePagedResultsControl(lc_cookie) ELSE <<>>, x))
        /\ IF x = "ok"
           THEN /\ gpc' = "gresult"
                /\ lc_cookie' = SimplePagedResultsControl(lc_cookie)
                /\ npages' = 1
                /\ UNCHANGED <<pc, ret, conns, gst, gidx, rdata, found_results, yielded,
                               abandoned>>
           ELSE \* "break" leaves the loop over the base paths
                GenEnd
    /\ UNCHANGED <<cfg, threads, op, searchVars, serverctrls>>

\* the paging controls a response may carry: none, or one with a cookie, empty on
\* the last page; the server ends the result set after MaxPages pages
ResponseCtrls ==
    IF ~HasPagination THEN { <<>> }
    ELSE { <<>>, << <<>> >> } \cup (IF npages < MaxPages THEN { <<Cookie(npages)>> } ELSE {})

\* conn.result3(msgid) / conn.result(msgid) and the drain of the batch
GenResult ==
    /\ gst = "running" /\ gpc = "gresult"
    /\ \/ \E d \in GroupBatches, ctrls \in ResponseCtrls :
            /\ log' = Append(log, Ctl(Got(GroupReq(IF HasPagination THEN "result3" ELSE "result",
                                                   <<>>, IF d # <<>> THEN "hit" ELSE "empty"),
                                          d), ctrls))
            /\ Drain(d, 0, ctrls)
       \/ \E x \in ResultFailures :
            /\ log' = Append(log, GroupReq(IF HasPagination THEN "result3" ELSE "result",
                                           <<>>, x))
            /\ NextPath
            /\ serverctrls' = serverctrls
    /\ UNCHANGED <<cfg, threads, op, searchVars>>

\* the search for the next page, sent outside every try block
GenContinue ==
    /\ gst = "running" /\ gpc = "gcont"
    /\ \E x \in IssueOutcomes :
        /\ log' = Append(log, GroupReq("search_ext", lc_cookie, x))
        /\ IF x = "ok"
           THEN /\ gpc' = "gresult"
                /\ npages' = npages + 1
                /\ UNCHANGED <<pc, ret, conns, gst, gidx, rdata, found_results, lc_cookie,
                               yielded, abandoned>>
           ELSE GenRaise(x, Unbound(conns, Cur))
    /\ UNCHANGED <<cfg, threads, op, searchVars, serverctrls>>

(***************************************************************************)
(* Operations running concurrently: get_user and verify_credentials called *)
(* from several threads, a step being one call on a connection object      *)
(* (simple_bind_s, search_s, unbind_s).  The connections are the objects   *)
(* made by LDAPConnection.__enter__; conn is the local variable of the     *)
(* with statement.                                                         *)
(***************************************************************************)
NumThreads == 2
Threads == 1..NumThreads

\* the locals of one running call
Local(name, at, conn, path, hit) ==
    [found |-> hit, pc |-> at, idx |-> path, name |-> name, conn |-> conn]

\* a connection object: the thread whose with statement made it, and the threads
\* that sent a search on it
OwnedConn(t, who, dn, st) == [dn |-> dn, who |-> who, st |-> st, owner |-> t, used |-> {}]

\* a faulty variant: get_connection hands out the connection made last
PooledConnection(cs) == IF cs = <<>> THEN 1 ELSE Len(cs)

\* LDAPConnectionBuilder.get_connection / LDAPConnection(...): a new object
get_connection(cs) == Len(cs) + 1

\* __enter__: the object h is (re)initialized and bound as c describes
Acquire(cs, h, c) == IF h = Len(cs) + 1 THEN Append(cs, c) ELSE [cs EXCEPT ![h] = c]

ConcUnchanged ==
    UNCHANGED <<cfg, op, pc, ret, log, searchVars, genVars>>

ThreadStart(t) ==
    /\ threads[t].pc = "idle"
    /\ \E n \in {"get_user", "verify_credentials"} :
          threads' = [threads EXCEPT ![t] = Local(n, "probe", 0, 0, FALSE)]
    /\ UNCHANGED conns
    /\ ConcUnchanged

\* __enter__ of a with statement of thread t: who is its role, next the position
\* inside the block, dn the identity bound
ThreadEnter(t, at, who, dn, next) ==
    /\ threads[t].pc = at
    /\ LET h == get_connection(conns) IN
       \E ok \in BOOLEAN :
          /\ conns' = Acquire(conns, h, OwnedConn(t, who, dn, IF ok THEN "bound" ELSE "leaked"))
          /\ threads' = [threads EXCEPT ![t].pc = IF ok THEN next ELSE "done",
                                        ![t].conn = h,
                                        ![t].idx = 1]
    /\ ConcUnchanged

\* __exit__ of the with statement thread t is in
ThreadExit(t, at, next) ==
    /\ threads[t].pc = at
    /\ conns' = [conns EXCEPT ![threads[t].conn].st = "unbound"]
    /\ threads' = [threads EXCEPT ![t].pc = next]
    /\ ConcUnchanged

ThreadProbeBind(t) == ThreadEnter(t, "probe", "probe", admin_dn, "probe_exit")
ThreadProbeExit(t) == ThreadExit(t, "probe_exit", "sbind")
ThreadSearchBind(t) == ThreadEnter(t, "sbind", "search", admin_dn, "search")

\* conn.search_s on the local conn, for the base path idx
ThreadSearch(t) ==
    /\ threads[t].pc = "search"
    /\ conns' = [conns EXCEPT ![threads[t].conn].used = @ \cup {t}]
    /\ \E out \in {"hit", "empty", "failed"} :
          threads' = [threads EXCEPT
                         ![t].found = (out = "hit"),
                         ![t].idx = IF LoopEnds(IF out = "hit" THEN << <<EA>> >> ELSE <<>>,
                                                NoErr, @)
                                    THEN @ ELSE @ + 1,
                         ![t].pc = IF LoopEnds(IF out = "hit" THEN << <<EA>> >> ELSE <<>>,
                                               NoErr, threads[t].idx)
                                   THEN "search_exit" ELSE "search"]
    /\ ConcUnchanged

ThreadSearchExit(t) ==
    \/ /\ threads[t].name = "verify_credentials" /\ threads[t].found
       /\ ThreadExit(t, "search_exit", "ubind")
    \/ /\ ~(threads[t].name = "verify_credentials" /\ threads[t].found)
       /\ ThreadExit(t, "search_exit", "done")

ThreadUserBind(t) == ThreadEnter(t, "ubind", "user", EA.dn, "user_exit")
ThreadUserExit(t) == ThreadExit(t, "user_exit", "done")

ConcNext ==
    \E t \in Threads :
        \/ ThreadStart(t)
        \/ ThreadProbeBind(t)
        \/ ThreadProbeExit(t)
        \/ ThreadSearchBind(t)
        \/ ThreadSearch(t)
        \/ ThreadSearchExit(t)
        \/ ThreadUserBind(t)
        \/ ThreadUserExit(t)

(***************************************************************************)
(* The specification.                                                      *)
(***************************************************************************)
Init ==
    /\ cfg \in Configs
    /\ op = NoOp
    /\ pc = "idle"
    /\ ret = NoRet
    /\ conns = <<>>
    /\ log = <<>>
    /\ idx = 0
    /\ err_msg = NoErr
    /\ pairs = <<>>
    /\ refdn = None
    /\ found = <<>>
    /\ gst = "none"
    /\ gpc = "none"
    /\ gidx = 0
    /\ rdata = <<>>
    /\ found_results = 0
    /\ serverctrls = <<>>
    /\ lc_cookie = <<>>
    /\ npages = 0
    /\ yielded = <<>>
    /\ abandoned = FALSE
    /\ threads = [t \in Threads |-> Local("none", "idle", 0, 0, FALSE)]

Next ==
    \/ ping
    \/ get_user
    \/ query_users
    \/ verify_credentials
    \/ is_superuser
    \/ is_global_readonly_superuser
    \/ is_restricted_user
    \/ at_least_one_user_exists
    \/ has_superusers
    \/ has_restricted_users
    \/ iterate_group_members
    \/ check_group_lookup_args
    \/ ProbeBind
    \/ SearchBind
    \/ Search
    \/ ReferralSearch
    \/ UserBind
    \/ ReferralBind
    \/ ExistsSearch
    \/ ExistsResult
    \/ Pull
    \/ Abandon
    \/ GenClose
    \/ GenBind
    \/ GenIssue
    \/ GenResult
    \/ GenContinue

Spec == Init /\ [][Next]_vars

\* the group operations alone, with the finalizer of a dropped generator run
\* (reference counting runs it as soon as the last reference goes)
GroupNext ==
    \/ iterate_group_members
    \/ check_group_lookup_args
    \/ ProbeBind
    \/ Pull
    \/ Abandon
    \/ GenClose
    \/ GenBind
    \/ GenIssue
    \/ GenResult
    \/ GenContinue

LiveSpec == Init /\ [][GroupNext]_vars /\ WF_vars(GenClose)

\* the calls of several threads, interleaved at every call on a connection
\* no step of these calls reads the configuration: the endpoint is the one with
\* the defaults of __init__
DefaultConfig ==
    [ ldap_user_filter |-> None,
      ldap_superuser_filter |-> None,
      ldap_global_readonly_superuser_filter |-> None,
      ldap_restricted_user_filter |-> None,
      requires_email |-> TRUE,
      force_no_pagination |-> FALSE ]
ConcInit == Init /\ cfg = DefaultConfig
ConcSpec == ConcInit /\ [][ConcNext]_vars

\* iterate_group_members with a consumer that pulls until the sequence ends: every
\* step of the generator that can be taken is taken, and the consumer asks again
\* whenever the generator is suspended
PullingNext ==
    \/ iterate_group_members
    \/ ProbeBind
    \/ Pull
    \/ GenBind
    \/ GenIssue
    \/ GenResult
    \/ GenContinue

\* the enumeration reads no role filter, the user filter only to build the search
\* filter and requires_email only to resolve an entry; pagination is switched off
\* by the argument of the call: the endpoint is the one with the defaults
PullingInit == Init /\ cfg = DefaultConfig

PullingSpec ==
    /\ PullingInit
    /\ [][PullingNext]_vars
    /\ WF_vars(Pull) /\ WF_vars(GenBind) /\ WF_vars(GenIssue) /\ WF_vars(GenResult)
    /\ WF_vars(GenContinue)

(***************************************************************************)
(* Properties.                                                             *)
(***************************************************************************)
IsSearch(r) == r.kind \in {"search_s", "search_ext", "search"}
\* the binds made with the secret the caller supplied
UserBinds == { i \in DOMAIN log : log[i].kind = "bind" /\ log[i].pw = op.password }
\* the searches of _ldap_user_search_with_rdn, and the primary ones among them
UserSearches == { i \in DOMAIN log : log[i].kind = "search_s" }
Primary == { i \in UserSearches : log[i].scope = "SUBTREE" }

\* C1: verify_credentials returns an identity record only if a bind with the
\* caller's secret succeeded, against the DN of the entry found or against the DN
\* parsed from the referral that bind raised; and a bind with that secret rejected
\* as invalid credentials makes the call return (None, "Invalid username or password.").
C1_BindProvesSecret ==
    (op.name = "verify_credentials" /\ pc = "done") =>
        /\ (ret.kind = "ret" /\ ret.val # <<>>) =>
              \E i \in UserBinds :
                  /\ log[i].out = "ok"
                  /\ \/ log[i].base = found[1].dn
                     \/ /\ (i - 1) \in UserBinds
                        /\ log[i - 1].out = "REFERRAL"
                        /\ log[i - 1].base = found[1].dn
                        /\ log[i].base = _get_ldap_referral_dn(log[i - 1].ref)
        /\ (\E i \in UserBinds : log[i].out = "INVALID_CREDENTIALS") => ret = InvalidLogin

\* a login accepted by the bind that followed a referral
C1_Witness ==
    /\ op.name = "verify_credentials" /\ pc = "done"
    /\ ret.kind = "ret" /\ ret.val # <<>>
    /\ \E i \in UserBinds : log[i].out = "REFERRAL"

\* C2: verify_credentials with an empty secret returns "Anonymous binding not
\* allowed." whatever the username, and no connection, bind or search is made.
C2_EmptySecretNoRoundTrip ==
    (op.name = "verify_credentials" /\ ~Truthy(op.password)) =>
        /\ pc = "done"
        /\ ret = Ret(<<>>, "Anonymous binding not allowed.")
        /\ conns = <<>>
        /\ log = <<>>

C2_Witness ==
    /\ op.name = "verify_credentials" /\ op.password = <<>> /\ op.term = <<"a", "l">>
    /\ pc = "done"

\* C3: a connection acquired through the connection manager is bound only while
\* the scope that acquired it is running: once the scope is left, by its end, by
\* an early return or by an exception, the connection is unbound.
C3_ScopeExitUnbinds ==
    \A i \in DOMAIN conns :
        conns[i].st = "bound" =>
            /\ i = Len(conns)
            /\ \/ conns[i].who = "search" /\ pc \in {"search", "refsearch", "esearch", "eresult"}
               \/ conns[i].who = "gen" /\ gst \in {"running", "suspended"}

\* the error return of the user search, from inside the scope
C3_Witness ==
    /\ pc = "done" /\ op.name = "get_user" /\ ret = Ret(<<>>, "Username not found")
    /\ \E i \in DOMAIN conns : conns[i].who = "search" /\ conns[i].st = "unbound"

GenConnBound == \E i \in DOMAIN conns : conns[i].who = "gen" /\ conns[i].st = "bound"

\* C4: once the member sequence is abandoned by its consumer, after any number of
\* items, or is exhausted, the connection the enumeration opened is eventually unbound.
C4_AbandonedEventuallyUnbound == (abandoned \/ gst = "done") ~> ~GenConnBound

\* check_group_lookup_args took one item and dropped the sequence, now closed
C4_Witness ==
    /\ op.name = "check_group_lookup_args" /\ abandoned /\ gst = "done"
    /\ Len(yielded) = 1
    /\ \E i \in DOMAIN conns : conns[i].who = "gen" /\ conns[i].st = "unbound"

\* C5: no directory exception reaches the caller of a public operation or the
\* consumer of the member sequence.
C5_NoDirectoryExceptionEscapes == ret.kind # "raise" /\ gst # "raised"

\* C6: the user search goes through the base paths in configured order, sends no
\* search after the first one that returned an entry, and returns the entries of
\* that path alone, whatever the earlier paths answered.
C6_FirstHitWins ==
    op.name \in UserSearchOps =>
        /\ \A i \in Primary : log[i].base = user_dns[Cardinality({j \in Primary : j <= i})]
        /\ \A i \in UserSearches, j \in UserSearches : i < j => log[i].out # "hit"
        /\ \A i \in UserSearches :
              (log[i].out = "hit" /\ pc \in {"done", "ubind", "rbind"}) =>
                  /\ pairs = <<log[i].data>>
                  /\ err_msg = NoErr
                  /\ op.name = "query_users" =>
                        ret = Ret(<<QueryResults(cfg, SelectSeq(take(op.limit, log[i].data),
                                                                HasDn))>>, NoErr)
                  /\ (op.name = "get_user" /\ ret.val # <<>>) =>
                        \E k \in DOMAIN log[i].data : ret = Built(cfg, log[i].data[k])

\* primary path empty, secondary path holding the user: get_user returns the user
C6_Witness ==
    /\ op.name = "get_user" /\ op.term = <<"a", "l">> /\ pc = "done"
    /\ Len(log) = 4
    /\ log[3].out = "empty" /\ log[3].base = user_dns[1]
    /\ log[4].out = "hit" /\ log[4].base = user_dns[2]
    /\ ret = Built(cfg, EA) /\ ret.val # <<>>

ErrPairOps == { "get_user", "query_users", "verify_credentials", "at_least_one_user_exists",
                "iterate_group_members", "check_group_lookup_args" }

\* C7: in the user search, the existence check and iterate_group_members the first
\* request is a standalone administrative bind; no search is sent unless it
\* succeeded; when it is rejected as invalid credentials nothing else is sent and
\* the error is "LDAP Admin dn or password is invalid", which no other cause gives.
C7_AdminProbeFirst ==
    op.name \in UserSearchOps \cup ExistsOps \cup GroupOps =>
        /\ \A i \in DOMAIN log :
              IsSearch(log[i]) =>
                  /\ log[1].kind = "bind" /\ log[1].base = admin_dn /\ log[1].out = "ok"
                  /\ conns[1].who = "probe" /\ conns[1].st = "unbound"
        /\ (log # <<>> /\ log[1].out = "INVALID_CREDENTIALS") =>
              /\ pc = "done" /\ Len(log) = 1 /\ ret.kind = "ret"
              /\ op.name \in ErrPairOps => ret.err = AdminInvalidMsg
        /\ (ret.kind = "ret" /\ ret.err = AdminInvalidMsg) =>
              (log # <<>> /\ log[1].out = "INVALID_CREDENTIALS")

C7_Witness ==
    /\ op.name = "at_least_one_user_exists" /\ pc = "done"
    /\ log[1].out = "INVALID_CREDENTIALS"
    /\ ret = Ret(<<>>, AdminInvalidMsg)

\* C8: get_user, query_users, verify_credentials with a secret and the three role
\* predicates, given an empty term or a service/bot identifier, end without opening
\* a connection: with an error pair, or with false for is_superuser and
\* is_global_readonly_superuser.
C8_NoConnectionForEmptyOrRobot ==
    ( /\ op.name \in UserSearchOps
      /\ ~Truthy(op.term) \/ IsRobot(op.term)
      /\ op.name = "verify_credentials" => Truthy(op.password) ) =>
        /\ pc = "done" /\ conns = <<>> /\ log = <<>> /\ ret.kind = "ret"
        /\ op.name \in {"get_user", "query_users", "verify_credentials"} =>
              ret.val = <<>> /\ ret.err # NoErr
        /\ op.name \in {"is_superuser", "is_global_readonly_superuser"} => ret.val = <<FALSE>>
        /\ (op.name = "is_restricted_user" /\ ~Truthy(op.term)) => ret.val = <<FALSE>>

C8_Witness ==
    /\ op.name = "is_global_readonly_superuser" /\ IsRobot(op.term) /\ pc = "done"
    /\ ret = Ret(<<FALSE>>, NoErr)

\* a referral payload with no info block, without the "Referral:\n" header or
\* without an "ldap:///" target
Malformed(p) ==
    \/ ~p.hasinfo
    \/ ~StartsWith(p.info, ReferralHeader)
    \/ ~StartsWith(SubSeq(p.info, Len(ReferralHeader) + 1, Len(p.info)), ReferralScheme)

\* C9: a user search that fails with a malformed referral gives the not-found
\* outcome for that base path, sends no referral search for it, and raises nothing.
C9_MalformedReferralIsNotFound ==
    \A i \in DOMAIN log :
        (log[i].kind = "search_s" /\ log[i].out = "REFERRAL" /\ Malformed(log[i].ref)) =>
            /\ i < Len(log) => ~(log[i + 1].kind = "search_s" /\ log[i + 1].scope = "BASE")
            /\ i = Len(log) =>
                  /\ pc \in {"search", "done"}
                  /\ ret.kind # "raise"
                  /\ pairs = <<>>
                  /\ err_msg = IF log[i].scope = "SUBTREE"
                               THEN "Failed to follow referral when looking up username"
                               ELSE "Username not found"
                  /\ (pc = "done" /\ op.name \in ErrPairOps) => ret = Ret(<<>>, err_msg)
                  /\ (pc = "done" /\ op.name \in PredicateOps) => ret = Ret(<<FALSE>>, NoErr)

\* the last base path answered with a referral to an http target
C9_Witness ==
    /\ op.name = "get_user" /\ pc = "done" /\ log # <<>>
    /\ log[Len(log)].out = "REFERRAL"
    /\ log[Len(log)].ref.hasinfo
    /\ StartsWith(log[Len(log)].ref.info, ReferralHeader)
    /\ Malformed(log[Len(log)].ref)
    /\ ret = Ret(<<>>, "Failed to follow referral when looking up username")

RECURSIVE MetaCount(_)
\* the number of filter metacharacters of a filter
MetaCount(f) ==
    IF f = <<>> THEN 0
    ELSE (IF Head(f) \in {"(", ")", "*"} THEN 1 ELSE 0) + MetaCount(Tail(f))

\* the filter of the same request for a value without metacharacters
PlainFilter(r) ==
    IF r.kind = "search_s"
    THEN IF r.scope = "SUBTREE" THEN UserQuery(cfg, <<"a">>, op.suffix, op.fl).q
         ELSE ReferralSubquery(cfg, <<"a">>)
    ELSE GroupFilter(cfg, <<"a">>)

\* C10: in every search request the user-supplied value is in the filter in
\* escaped form only: it adds no filter metacharacter to the filter.
C10_FiltersEscaped ==
    op.name \in UserSearchOps \cup GroupOps =>
        \A i \in DOMAIN log :
            IsSearch(log[i]) => MetaCount(log[i].flt) = MetaCount(PlainFilter(log[i]))

IsResult(r) == r.kind \in {"result3", "result"}
\* the requests that failed, the probe bind aside
FailedReqs == { i \in DOMAIN log : log[i].out \notin {"ok", "hit", "empty"} }
\* the position of a base path in self._user_dns
PathIndex(b) == CHOOSE p \in DOMAIN user_dns : user_dns[p] = b

RECURSIVE Items(_)
\* one item for every entry of a batch that is not referral-shaped, in server order
Items(d) ==
    IF d = <<>> THEN <<>>
    ELSE (IF Head(d).ref THEN <<>> ELSE << <<_build_user_information(cfg, Head(d))>> >>)
             \o Items(Tail(d))

RECURSIVE AllItems(_)
\* the items of the batches read by the first n requests, in arrival order
AllItems(n) ==
    IF n = 0 THEN <<>>
    ELSE AllItems(n - 1) \o (IF IsResult(log[n]) THEN Items(log[n].data) ELSE <<>>)

\* the enumeration ran to its end with paging and no request failed
ExhaustedPaged ==
    /\ op.name \in GroupOps /\ HasPagination
    /\ gst = "done" /\ ~abandoned
    /\ FailedReqs = {}

\* C11: with paging, an enumeration run to exhaustion yields exactly one item for
\* every entry that is not referral-shaped of every page of every base path, none
\* twice and none dropped, by base-path order, page order and server order: every
\* page the server announces with a cookie is requested, every request is read once.
C11_PagedEnumerationComplete ==
    ExhaustedPaged =>
        /\ yielded = AllItems(Len(log))
        /\ \A p \in DOMAIN user_dns :
              \E i \in DOMAIN log : IsSearch(log[i]) /\ log[i].base = user_dns[p]
        /\ \A i \in DOMAIN log, j \in DOMAIN log :
              (IsSearch(log[i]) /\ IsSearch(log[j]) /\ i < j) =>
                  PathIndex(log[i].base) <= PathIndex(log[j].base)
        /\ \A i \in DOMAIN log :
              /\ IsSearch(log[i]) =>
                    /\ i < Len(log)
                    /\ IsResult(log[i + 1]) /\ log[i + 1].base = log[i].base
              /\ IsResult(log[i]) => IsSearch(log[i - 1])
              /\ (IsResult(log[i]) /\ log[i].data # <<>> /\ log[i].ctrls # <<>>
                      /\ log[i].ctrls # << <<>> >>) =>
                    /\ i < Len(log)
                    /\ log[i + 1].kind = "search_ext"
                    /\ log[i + 1].base = log[i].base
                    /\ log[i + 1].cookie = log[i].ctrls[1]

\* two pages of 3 and 1 entries on the primary path at page size 2, one of the
\* entries referral-shaped: 3 items after 2 page requests, then the second path
C11_Witness ==
    /\ op.name = "iterate_group_members" /\ op.page_size = 2 /\ ExhaustedPaged
    /\ Len(log) = 8
    /\ log[4].data = <<EA, ER, EU>> /\ log[5].cookie = Cookie(1) /\ log[6].data = <<EU>>
    /\ log[6].base = user_dns[1] /\ log[8].base = user_dns[2]
    /\ Len(yielded) = 3

SearchesOn(p) == { i \in DOMAIN log : IsSearch(log[i]) /\ log[i].base = user_dns[p] }
ResultsOn(p) == { i \in DOMAIN log : IsResult(log[i]) /\ log[i].base = user_dns[p] }
\* pagination switched off by the setting or by the argument
Unpaged == cfg.force_no_pagination \/ op.disable_pagination
\* the first response on the path p came back without a paging control
NoControl(p) ==
    \E i \in ResultsOn(p) :
        /\ \A j \in ResultsOn(p) : i <= j
        /\ log[i].out \in {"hit", "empty"} /\ log[i].ctrls = <<>>

\* C12: in group iteration without paging (switched off, or no paging control in the
\* response) one search is sent and one batch is read per base path, as plain
\* search/result when switched off, and every entry of the batch is yielded.
C12_UnpagedOneBatchPerPath ==
    op.name \in GroupOps =>
        /\ \A p \in DOMAIN user_dns :
              (Unpaged \/ NoControl(p)) =>
                  /\ Cardinality(SearchesOn(p)) <= 1
                  /\ Cardinality(ResultsOn(p)) <= 1
        /\ Unpaged =>
              \A i \in DOMAIN log :
                  log[i].kind \in {"bind", "search", "result"} /\ log[i].size = 0
        /\ (gst = "done" /\ ~abandoned) => yielded = AllItems(Len(log))
        /\ (gst = "done" /\ ~abandoned /\ FailedReqs = {}) =>
              \A p \in DOMAIN user_dns :
                  (Unpaged \/ NoControl(p)) =>
                      /\ Cardinality(SearchesOn(p)) = 1
                      /\ Cardinality(ResultsOn(p)) = 1

\* pagination disabled by the argument, a batch of 3 entries at page size 2
C12_Witness ==
    /\ op.name = "iterate_group_members" /\ op.disable_pagination /\ op.page_size = 2
    /\ ~cfg.force_no_pagination
    /\ gst = "done" /\ ~abandoned /\ FailedReqs = {}
    /\ Len(log) = 6 /\ log[4].data = <<EA, ER, EU>> /\ log[6].data = <<EU>>
    /\ Len(yielded) = 3

\* C13: in group iteration a failed search or a failed read on one base path ends
\* that path only: nothing is raised to the consumer, the items yielded stay, and
\* the next base path is searched.
C13_PathErrorEndsOnlyThatPath ==
    op.name \in GroupOps =>
        /\ gst = "raised" => log[Len(log)].kind = "bind"
        /\ (gst = "done" /\ ~abandoned) =>
              /\ yielded = AllItems(Len(log))
              /\ \A i \in FailedReqs :
                    (log[i].kind # "bind" /\ PathIndex(log[i].base) < Len(user_dns)) =>
                        SearchesOn(PathIndex(log[i].base) + 1) # {}

\* C14: with no restricted-user filter configured, is_restricted_user returns true
\* for every non-empty identifier that is no service/bot identifier, and false for
\* every service/bot identifier.
C14_RestrictedByDefault ==
    ( /\ op.name = "is_restricted_user"
      /\ cfg.ldap_restricted_user_filter = None
      /\ Truthy(op.term) ) =>
        /\ pc = "done"
        /\ ret = Ret(<<~IsRobot(op.term)>>, NoErr)

\* the filter configured for the role a predicate asks about
RoleFilter ==
    IF op.name = "is_superuser" THEN cfg.ldap_superuser_filter
    ELSE IF op.name = "is_global_readonly_superuser"
    THEN cfg.ldap_global_readonly_superuser_filter
    ELSE cfg.ldap_restricted_user_filter
\* the lookup ended on a search that returned an entry with a DN
LookupHit ==
    /\ log # <<>>
    /\ log[Len(log)].kind = "search_s" /\ log[Len(log)].out = "hit"
    /\ \E k \in DOMAIN log[Len(log)].data : HasDn(log[Len(log)].data[k])

C16_ShortCircuitNeedsUser ==
    ( /\ op.name = "has_restricted_users" /\ cfg.ldap_restricted_user_filter = None
      /\ pc = "done" /\ ret.kind = "ret" /\ ret.val = <<TRUE>> ) =>
        /\ log # <<>>
        /\ IsResult(log[Len(log)]) /\ log[Len(log)].out = "hit"

SearchRequests == { i \in DOMAIN log : log[i].kind = "search_s" }
\* the search ended on a hit and its caller went on
SearchSucceeded ==
    /\ op.name \in UserSearchOps
    /\ pc \in {"done", "ubind", "rbind"}
    /\ SearchRequests # {}
    /\ \E i \in SearchRequests : log[i].out = "hit" /\ \A j \in SearchRequests : j <= i

\* the data of the search that hit
HitData == log[CHOOSE i \in SearchRequests : log[i].out = "hit"].data

\* C17: a successful user search gives at most limit results, each with a DN, in
\* server order: query_users resolves only entries with a DN among the first limit
\* ones, in order; get_user resolves, verify_credentials binds as, and a role
\* predicate accepts only an entry with a DN.
C17_ResultsBoundedWithDn ==
    SearchSucceeded =>
        LET d == HitData
            n == Min(op.limit, Len(d))
        IN  /\ (op.name = "query_users" /\ ret.kind = "ret" /\ ret.val # <<>>) =>
                  LET R == ret.val[1] IN
                  /\ Len(R) <= op.limit
                  /\ \E f \in [DOMAIN R -> 1..n] :
                        /\ \A a \in DOMAIN R, b \in DOMAIN R : a < b => f[a] < f[b]
                        /\ \A a \in DOMAIN R :
                              /\ d[f[a]].dn # <<>>
                              /\ _build_user_information(cfg, d[f[a]]).val = <<R[a]>>
            /\ (op.name = "get_user" /\ ret.kind = "ret" /\ ret.val # <<>>) =>
                  \E k \in 1..n : d[k].dn # <<>> /\ ret = Built(cfg, d[k])
            /\ (op.name = "verify_credentials" /\ found # <<>>) =>
                  /\ found[1].dn # <<>>
                  /\ \E k \in 1..n : d[k] = found[1]
                  /\ \A i \in UserBinds : log[i].base # <<>>
            /\ (op.name \in PredicateOps /\ ret.kind = "ret" /\ ret.val = <<TRUE>>) =>
                  \E k \in 1..n : d[k].dn # <<>>
            /\ (\A k \in 1..n : d[k].dn = <<>>) =>
                  /\ pc = "done" /\ found = <<>>
                  /\ op.name = "query_users" => ret = Ret(<< <<>> >>, NoErr)
                  /\ op.name \in {"get_user", "verify_credentials"} => ret = InvalidLogin
                  /\ op.name \in PredicateOps => ret = Ret(<<FALSE>>, NoErr)

\* query_users with limit 2 on a result of 3 entries: the third is cut off
C17_Witness ==
    /\ op.name = "query_users" /\ op.limit = 2 /\ pc = "done" /\ ~cfg.requires_email
    /\ SearchSucceeded /\ HitData = <<EU, EB, EA>>
    /\ ret = Ret(<< <<_build_user_information(cfg, EB).val[1]>> >>, NoErr)

\* verify_credentials resolved the entry it bound as
Resolved ==
    /\ op.name = "verify_credentials" /\ pc = "done" /\ found # <<>>
    /\ log[Len(log)].kind = "bind" /\ log[Len(log)].out = "ok"

\* C18: resolving an attribute map fails with the missing-uid error when the uid
\* attribute is absent and with the missing-mail error when email is mandatory and
\* absent, returning no record at all; a record returned has id = username, taken
\* from the first uid value; no yielded item carries both an error and a record.
C18_ResolutionErrors ==
    /\ Resolved =>
          LET e == found[1] IN
          IF e.uid = <<>>
          THEN ret = Ret(<<>>, "Missing uid field \"uid\" in user record")
          ELSE IF cfg.requires_email /\ e.mail = <<>>
          THEN ret = Ret(<<>>, "Missing mail field \"mail\" in user record")
          ELSE /\ ret.kind = "ret" /\ ret.err = NoErr /\ Len(ret.val) = 1
               /\ ret.val[1].id = ret.val[1].username
               /\ ret.val[1].username.s = e.uid[1].b
               /\ ret.val[1].email.s = IF e.mail = <<>> THEN None ELSE e.mail[1].b
    /\ \A k \in DOMAIN yielded :
          LET item == yielded[k][1] IN
          /\ item.err # NoErr => item.val = <<>>
          /\ item.err = NoErr =>
                /\ Len(item.val) = 1 /\ item.val[1].id = item.val[1].username
                /\ cfg.requires_email => item.val[1].email.s # None

\* a verified login whose entry has no email, which the endpoint requires
C18_Witness ==
    /\ Resolved /\ cfg.requires_email /\ found[1] = EB
    /\ ret = Ret(<<>>, "Missing mail field \"mail\" in user record")

\* the positions, among the first limit entries of the hit, of the entries with a
\* DN, and of those that also have the email attribute
DnPositions ==
    { k \in 1..Min(op.limit, Len(HitData)) : HitData[k].dn # <<>> }
MailPositions == { k \in DnPositions : HitData[k].mail # <<>> }
Lowest(S) == CHOOSE k \in S : \A j \in S : k <= j
\* the entry the selection policy names
Preferred ==
    IF MailPositions # {} THEN HitData[Lowest(MailPositions)]
    ELSE HitData[Lowest(DnPositions)]

\* C19: of several entries with DNs a single-user lookup selects the first with an
\* email attribute, else the first; get_user resolves that entry and
\* verify_credentials binds as it; with no entry the lookup fails with
\* "Invalid username or password.".
C19_SelectionPolicy ==
    /\ (SearchSucceeded /\ op.name \in {"get_user", "verify_credentials"}) =>
          IF DnPositions = {}
          THEN ret = InvalidLogin /\ found = <<>>
          ELSE /\ op.name = "get_user" => ret = Built(cfg, Preferred)
               /\ op.name = "verify_credentials" =>
                     /\ found = <<Preferred>>
                     /\ \A i \in UserBinds :
                           log[i].base = Preferred.dn \/ log[i - 1].out = "REFERRAL"
    /\ ( /\ op.name \in {"get_user", "verify_credentials"} /\ pc = "done"
         /\ log # <<>> /\ log[Len(log)].kind = "search_s"
         /\ log[Len(log)].out = "empty" ) => ret = InvalidLogin

\* two entries with DNs, only the second with an email: the second is bound as
C19_Witness ==
    /\ op.name = "verify_credentials" /\ SearchSucceeded /\ HitData = <<EB, EA>>
    /\ pc = "done" /\ found = <<EA>>
    /\ \E i \in UserBinds : log[i].base = EA.dn /\ log[i].out = "ok"

\* the connections thread t made, and those of them that are bound
ConnsOf(t) == { i \in DOMAIN conns : conns[i].owner = t }
BoundOf(t) == { i \in ConnsOf(t) : conns[i].st = "bound" }

\* C20: with operations interleaved in any way, a connection is used only by the
\* operation that made it, no two operations hold the same connection, none is
\* bound once its scope is left, and an operation has at most one connection bound
\* at a time: the probe connection is unbound before the search connection is
\* made, and the search connection before the user bind.
C20_ConnectionsNotShared ==
    /\ \A i \in DOMAIN conns :
          /\ conns[i].used \subseteq {conns[i].owner}
          /\ conns[i].st = "bound" =>
                /\ threads[conns[i].owner].conn = i
                /\ threads[conns[i].owner].pc
                       \in {"probe_exit", "search", "search_exit", "user_exit"}
    /\ \A t \in Threads, u \in Threads :
          (t # u /\ threads[t].conn # 0) => threads[t].conn # threads[u].conn
    /\ \A t \in Threads :
          /\ Cardinality(BoundOf(t)) <= 1
          /\ \A i \in ConnsOf(t), j \in ConnsOf(t) :
                /\ (conns[i].who = "probe" /\ conns[j].who = "search") =>
                      (i < j /\ conns[i].st # "bound")
                /\ (conns[i].who = "search" /\ conns[j].who = "user") =>
                      (i < j /\ conns[i].st # "bound")

\* two calls inside their search scopes at once, each on its own connection
C20_Witness ==
    /\ threads[1].pc = "search" /\ threads[2].pc = "search"
    /\ threads[1].idx = 2 /\ threads[2].idx = 2
    /\ BoundOf(1) # {} /\ BoundOf(2) # {}
    /\ conns[threads[1].conn].used = {1} /\ conns[threads[2].conn].used = {2}

\* the items yielded that are records, not resolution errors
Members == { k \in DOMAIN yielded : yielded[k][1].err = NoErr }

\* C21: check_group_lookup_args returns (True, None) exactly when the enumeration
\* at page size 1 gave a member identity; without a group DN it returns
\* (False, "Missing group_dn") and opens no connection; when the enumeration ends
\* without an item it returns (False, "Group does not exist or is empty").
C21_TrueIffMemberResolves ==
    (op.name = "check_group_lookup_args" /\ pc = "done" /\ ret.kind = "ret") =>
        /\ (ret = Ret(<<TRUE>>, NoErr)) = (Members # {})
        /\ ~Truthy(op.group_dn) =>
              ret = Ret(<<FALSE>>, "Missing group_dn") /\ conns = <<>> /\ log = <<>>
        /\ (gst = "done" /\ ~abandoned /\ yielded = <<>>) =>
              ret = Ret(<<FALSE>>, "Group does not exist or is empty")
        /\ \A i \in DOMAIN log : log[i].kind = "search_ext" => log[i].size = 1

\* the searches and the reads of the existence check
ExistsSearches == { i \in DOMAIN log : IsSearch(log[i]) }
ExistsReads == { i \in DOMAIN log : IsResult(log[i]) }
\* the role filter the existence check was asked to apply is not configured
RoleFilterMissing ==
    \/ op.fru /\ ~Truthy(cfg.ldap_restricted_user_filter)
    \/ ~op.fru /\ op.fsu /\ ~Truthy(cfg.ldap_superuser_filter)
\* the callers that hand on what at_least_one_user_exists returned
RelaysExists ==
    op.name \in {"at_least_one_user_exists", "has_superusers"}
        \/ (op.name = "has_restricted_users" /\ cfg.ldap_restricted_user_filter # None)

\* what C22 says apart from the paging of the searches
ExistsShape ==
    /\ \A i \in ExistsSearches :
          /\ log[i].base = user_dns[Cardinality({j \in ExistsSearches : j <= i})]
          /\ log[i].scope = "SUBTREE"
    /\ \A i \in ExistsReads :
          log[i].out = "hit" =>
              /\ i = Len(log) /\ pc = "done"
              /\ op.name = "at_least_one_user_exists" => ret = Ret(<<TRUE>>, NoErr)
              /\ ret.val = <<TRUE>>
    /\ ( /\ pc = "done" /\ Cardinality(ExistsReads) = Len(user_dns)
         /\ \A i \in ExistsReads : log[i].out = "empty" ) =>
              /\ op.name = "at_least_one_user_exists" => ret = Ret(<<FALSE>>, NoErr)
              /\ RelaysExists => ret.val = <<FALSE>>
    /\ RoleFilterMissing =>
          /\ ExistsSearches = {}
          /\ (pc = "done" /\ Len(log) = 2 /\ log[2].out = "ok") =>
                /\ op.name = "at_least_one_user_exists" =>
                      /\ ret.kind = "ret" /\ ret.val = <<FALSE>>
                      /\ ret.err \in {"Superuser filter not set", "Restricted user filter not set"}
                /\ RelaysExists => ret.val = <<FALSE>>

\* C22 as stated: the existence check searches the base paths in configured order,
\* every search with a paging control of size one; it returns true at the first
\* path whose response holds an entry and searches no later path, false when every
\* path's response is empty, and (false, message) without any search when the role
\* filter asked for is not configured.
C22_Original ==
    op.name \in ExistsOps =>
        /\ ExistsShape
        /\ \A i \in ExistsSearches : log[i].kind = "search_ext" /\ log[i].size = 1

\* C22, amended: as stated, except that the searches carry a paging control of size
\* one with an empty cookie unless pagination is forced off by the configuration,
\* in which case they are plain searches read with result.
C22_ExistenceCheck ==
    op.name \in ExistsOps =>
        /\ ExistsShape
        /\ \A i \in ExistsSearches :
              IF cfg.force_no_pagination
              THEN log[i].kind = "search" /\ log[i].size = 0
              ELSE log[i].kind = "search_ext" /\ log[i].size = 1 /\ log[i].cookie = <<>>
        /\ \A i \in ExistsReads :
              log[i].kind = IF cfg.force_no_pagination THEN "result" ELSE "result3"

\* pagination forced off: the primary path empty, an entry on the secondary path
C22_Witness ==
    /\ op.name = "at_least_one_user_exists" /\ pc = "done" /\ cfg.force_no_pagination
    /\ Len(log) = 6
    /\ log[3].kind = "search" /\ log[4].out = "empty" /\ log[4].base = user_dns[1]
    /\ log[6].out = "hit" /\ log[6].base = user_dns[2]
    /\ ret = Ret(<<TRUE>>, NoErr)

\* the first search sent on its base path
FirstOnPath(i) == \A j \in 1..(i - 1) : ~(IsSearch(log[j]) /\ log[j].base = log[i].base)

\* C23: in paged group iteration the first search on a base path carries an empty
\* cookie; every other search follows at once the read of a page of the same base
\* path that was not empty and held a paging control with a non-empty cookie, and
\* carries that cookie; after a page whose control has an empty cookie no search
\* is sent on that base path.
C23_CookieThreading ==
    (op.name \in GroupOps /\ HasPagination) =>
        \A i \in DOMAIN log :
            /\ IsSearch(log[i]) =>
                  IF FirstOnPath(i)
                  THEN log[i].cookie = <<>>
                  ELSE /\ IsResult(log[i - 1]) /\ log[i - 1].base = log[i].base
                       /\ log[i - 1].data # <<>>
                       /\ log[i - 1].ctrls # <<>> /\ log[i - 1].ctrls[1] # <<>>
                       /\ log[i].cookie = log[i - 1].ctrls[1]
            /\ (IsResult(log[i]) /\ log[i].ctrls = << <<>> >>) =>
                  \A j \in DOMAIN log :
                      (j > i /\ IsSearch(log[j])) => log[j].base # log[i].base

\* the primary path read in two pages, its control left holding the cookie of the
\* first, then the first search of the secondary path
C23_Witness ==
    /\ op.name = "iterate_group_members" /\ HasPagination
    /\ Len(log) >= 7
    /\ log[4].ctrls = <<Cookie(1)>> /\ log[5].cookie = Cookie(1)
    /\ log[5].base = user_dns[1] /\ log[6].out = "hit" /\ log[6].ctrls = <<>>
    /\ log[7].kind = "search_ext" /\ log[7].base = user_dns[2] /\ log[7].cookie = <<>>

\* the searches on referral DNs
Retries == { i \in UserSearches : log[i].scope = "BASE" }
\* the identity-only filter for the value v, with the user filter if one is configured
IdentityOnly(v) == _add_user_filter(cfg, <<"(">> \o uid_attr \o <<"=">> \o v \o <<")">>)

\* C24: in the user search a base-scope search is sent only right after the
\* subtree search of a base path answered with a referral whose DN parses, on that
\* DN, with the identity-only filter and the user filter and no role filter; such a
\* referral is always followed by it; what follows a retry is never another
\* base-scope search but the subtree search of the next base path, if any; and a
\* retry that fails, also with a referral, gives not-found and raises nothing.
C24_OneReferralRetry ==
    op.name \in UserSearchOps =>
        /\ \A i \in Retries :
              /\ (i - 1) \in Primary /\ log[i - 1].out = "REFERRAL"
              /\ Truthy(_get_ldap_referral_dn(log[i - 1].ref))
              /\ log[i].base = _get_ldap_referral_dn(log[i - 1].ref)
              /\ log[i].flt \in {IdentityOnly(op.term), IdentityOnly(escape_filter_chars(op.term))}
              /\ (i < Len(log) /\ log[i + 1].kind # "bind") =>
                    /\ log[i].out # "hit"
                    /\ (i + 1) \in Primary
                    /\ PathIndex(log[i + 1].base) = PathIndex(log[i - 1].base) + 1
              /\ (i = Len(log) /\ log[i].out \notin {"hit", "empty"}) =>
                    /\ pc \in {"search", "done"}
                    /\ ret.kind # "raise"
                    /\ pairs = <<>> /\ err_msg = "Username not found"
                    /\ (pc = "done" /\ op.name \in ErrPairOps) =>
                          ret = Ret(<<>>, "Username not found")
                    /\ (pc = "done" /\ op.name \in PredicateOps) => ret = Ret(<<FALSE>>, NoErr)
        /\ \A i \in Primary :
              (log[i].out = "REFERRAL" /\ Truthy(_get_ldap_referral_dn(log[i].ref))) =>
                  IF i = Len(log) THEN pc = "refsearch" ELSE (i + 1) \in Retries

\* the retry of the primary path answered with a referral again: the secondary
\* path is searched next, and the user found there
C24_Witness ==
    /\ op.name = "is_superuser" /\ pc = "done" /\ Len(log) = 5
    /\ log[3].out = "REFERRAL" /\ log[4].scope = "BASE" /\ log[4].out = "REFERRAL"
    /\ Truthy(_get_ldap_referral_dn(log[4].ref))
    /\ log[5].scope = "SUBTREE" /\ log[5].base = user_dns[2] /\ log[5].out = "hit"

\* the consumer holds the iterator returned by iterate_group_members
Iterating == op.name = "iterate_group_members" /\ pc = "done" /\ gst # "none"
\* the sequence ended, by exhaustion or by an exception
Ended == gst \in {"done", "raised"}
\* the first searches sent on the base path p: those with an empty cookie
Visits(p) == { i \in SearchesOn(p) : log[i].cookie = <<>> }

\* C25: with a server that ends every base path after finitely many pages, a
\* consumer that keeps pulling reaches the end of the sequence; every base path is
\* visited at most once, in configured order, and once the sequence has ended the
\* connection of the enumeration is not bound.
C25_IterationTerminates ==
    /\ Iterating ~> Ended
    /\ [](Iterating =>
            /\ \A p \in DOMAIN user_dns : Cardinality(Visits(p)) <= 1
            /\ \A i \in DOMAIN log, j \in DOMAIN log :
                  (IsSearch(log[i]) /\ IsSearch(log[j]) /\ i < j) =>
                      PathIndex(log[i].base) <= PathIndex(log[j].base)
            /\ Ended => ~GenConnBound)

\* both base paths read to their last page, MaxPages pages on the primary one
C25_Witness ==
    /\ Iterating /\ gst = "done" /\ HasPagination
    /\ Cardinality(SearchesOn(1)) = MaxPages /\ Cardinality(SearchesOn(2)) >= 1
    /\ Cardinality(Visits(1)) = 1 /\ Cardinality(Visits(2)) = 1
    /\ yielded # <<>>
    /\ \E i \in DOMAIN conns : conns[i].who = "gen" /\ conns[i].st = "unbound"

\* the operation has returned and no member sequence of it is still to be consumed
Returned == pc = "done" /\ gst \in {"none", "done", "raised"}

\* C26: once an operation has returned, with a value or with an exception, every
\* connection handle made during it has been released with unbind_s, also a handle
\* whose bind was rejected or failed.
C26_NoHandleLeftUnreleased ==
    Returned => \A i \in DOMAIN conns : conns[i].st = "unbound"

\* a batch that is not empty and holds referral-shaped entries only
OnlyReferrals(d) == d # <<>> /\ \A k \in DOMAIN d : d[k].ref
\* the response carried a paging control with a cookie that is not empty
HasCookie(r) == r.ctrls # <<>> /\ r.ctrls[1] # <<>>

\* C27: in group iteration a batch of referral-shaped entries only yields nothing
\* and does not stop the base path: with paging and a non-empty cookie in the
\* response the next page is asked for with that cookie, while an empty batch stops
\* the base path whatever the cookie; referral-shaped entries are never yielded,
\* and no search is sent anywhere but on the configured base paths.
C27_ReferralEntriesCounted ==
    op.name \in GroupOps =>
        /\ yielded \o Items(rdata) = AllItems(Len(log))
        /\ \A i \in DOMAIN log :
              /\ IsSearch(log[i]) => \E p \in DOMAIN user_dns : log[i].base = user_dns[p]
              /\ (IsResult(log[i]) /\ HasPagination /\ HasCookie(log[i])) =>
                    /\ OnlyReferrals(log[i].data) =>
                          IF i = Len(log)
                          THEN gst = "running" /\ gpc = "gcont" /\ lc_cookie = log[i].ctrls[1]
                          ELSE /\ log[i + 1].kind = "search_ext"
                               /\ log[i + 1].base = log[i].base
                               /\ log[i + 1].cookie = log[i].ctrls[1]
                    /\ (log[i].out = "empty" /\ i < Len(log)) =>
                          log[i + 1].base # log[i].base

\* a first page of one referral-shaped entry with a cookie: nothing yielded, and
\* the next page asked for
C27_Witness ==
    /\ op.name = "iterate_group_members" /\ HasPagination
    /\ Len(log) = 5
    /\ log[4].data = <<ER>> /\ log[4].ctrls = <<Cookie(1)>>
    /\ log[5].kind = "search_ext" /\ log[5].cookie = Cookie(1) /\ log[5].base = log[4].base
    /\ yielded = <<>>

====
